---- MODULE Spec2Model ----
(***************************************************************************)
(* Question-bank pipeline of banderasz29/python_test:                      *)
(*   molsejt/qa_utils.py        answer splitter, CSV parser, merge, sampler*)
(*   orvosi_kemia/app_kemia.py  CSV parser, sampler, extract_qnum          *)
(*   orvosi_kemai/qa_utils_kemia.py  sampler                               *)
(* A text is a sequence of one-character strings.                          *)
(***************************************************************************)
EXTENDS Naturals, Integers, Sequences, FiniteSets, TLC

VARIABLES
    pc,         \* position of the run: which call has returned
    cell,       \* raw answer cell handed to _answers_from_cell
    answers,    \* list returned by _answers_from_cell(cell)
    re_in,      \* one returned answer, split again alone
    re_out,     \* list returned by _answers_from_cell(re_in)
    parser,     \* which CSV reader runs: "dict" (molsejt), "app" (orvosi_kemia)
    file,       \* shape of the source being read: exists, header, data rows
    nleft,      \* data rows the reader's loop has still to visit
    sawq,       \* some visited row had a non-blank question cell
    qa,         \* the dict the running reader is filling
    row,        \* the question and answer cells of the row being visited
    ret,        \* outcome of every reader call so far, in call order
    vegyes,     \* the bank _osszefesul_qa returned
    vegyes_rev, \* the bank _osszefesul_qa returned for the sources swapped
    src1,       \* what reading fajl_1 gives: a bank or an error
    src2,       \* what reading fajl_2 gives: a bank or an error
    n,          \* the requested number of questions
    call,       \* the sampling function called, and its mod argument
    out,        \* what the sampling call gave: key list (and bank) or error
    kerdes,     \* the question text handed to extract_qnum
    qnum,       \* what extract_qnum returned: an identifier or None
    qa_keys,      \* run_app: list(qa.keys()) of the bank the app loaded
    kor_kerdesei, \* st.session_state.kor_kerdesei: the questions of the round
    show_answer,  \* st.session_state.show_answer: question -> revealed
    itel,         \* st.session_state.itel: question -> None, helyes, hibas
    osszegzes     \* st.session_state.osszegzes: None or the summary

splitVars == <<cell, answers, re_in, re_out>>
bankVars  == <<parser, file, nleft, sawq, qa, row, ret, vegyes, vegyes_rev>>
sampleVars == <<src1, src2, n, call, out>>
qnumVars == <<kerdes, qnum>>
sessionVars == <<qa_keys, kor_kerdesei, show_answer, itel, osszegzes>>
vars == <<pc, splitVars, bankVars, sampleVars, qnumVars, sessionVars>>

(***************************************************************************)
(* Bounds                                                                  *)
(***************************************************************************)
MaxCellLen == 6
MaxItemLen == 2
MaxRows == 2
MaxN == 7
MaxQLen == 6
MaxBank == 8

(***************************************************************************)
(* Python str / re primitives, as the code uses them                       *)
(***************************************************************************)
\* characters str.strip() and the regex class \s treat as whitespace
WS == {" ", "\n", "\r", "\t"}

Min(S) == CHOOSE x \in S : \A y \in S : x <= y
Max(S) == CHOOSE x \in S : \A y \in S : x >= y

\* s.strip(chars)
strip_chars(s, cs) ==
    LET keep == {i \in 1..Len(s) : s[i] \notin cs}
    IN  IF keep = {} THEN <<>> ELSE SubSeq(s, Min(keep), Max(keep))

\* s.lstrip()
lstrip(s) ==
    LET keep == {i \in 1..Len(s) : s[i] \notin WS}
    IN  IF keep = {} THEN <<>> ELSE SubSeq(s, Min(keep), Len(s))

\* s.rstrip()
rstrip(s) ==
    LET keep == {i \in 1..Len(s) : s[i] \notin WS}
    IN  IF keep = {} THEN <<>> ELSE SubSeq(s, 1, Max(keep))

\* s.strip()
strip(s) == strip_chars(s, WS)

\* cell.replace("\r\n", "\n").replace("\r", "\n")
RECURSIVE normalize_newlines(_)
normalize_newlines(s) ==
    IF s = <<>> THEN <<>>
    ELSE IF s[1] = "\r"
         THEN IF Len(s) >= 2 /\ s[2] = "\n"
              THEN <<"\n">> \o normalize_newlines(SubSeq(s, 3, Len(s)))
              ELSE <<"\n">> \o normalize_newlines(Tail(s))
         ELSE <<s[1]>> \o normalize_newlines(Tail(s))

\* text.splitlines(): cur is the line being collected
RECURSIVE splitlines_acc(_, _)
splitlines_acc(s, cur) ==
    IF s = <<>> THEN (IF cur = <<>> THEN <<>> ELSE <<cur>>)
    ELSE IF s[1] = "\n" THEN <<cur>> \o splitlines_acc(Tail(s), <<>>)
    ELSE IF s[1] = "\r"
         THEN <<cur>> \o splitlines_acc(IF Len(s) >= 2 /\ s[2] = "\n"
                                        THEN SubSeq(s, 3, Len(s))
                                        ELSE Tail(s), <<>>)
    ELSE splitlines_acc(Tail(s), Append(cur, s[1]))

splitlines(s) == splitlines_acc(s, <<>>)

\* "\n".join(lines)
RECURSIVE join_nl(_)
join_nl(lines) ==
    IF lines = <<>> THEN <<>>
    ELSE IF Len(lines) = 1 THEN lines[1]
    ELSE lines[1] \o <<"\n">> \o join_nl(Tail(lines))

\* s.split(c): cur is the piece being collected
RECURSIVE split_char_acc(_, _, _)
split_char_acc(s, c, cur) ==
    IF s = <<>> THEN <<cur>>
    ELSE IF s[1] = c THEN <<cur>> \o split_char_acc(Tail(s), c, <<>>)
    ELSE split_char_acc(Tail(s), c, Append(cur, s[1]))

split_char(s, c) == split_char_acc(s, c, <<>>)

\* re.search(r"\s-\s+", s)
search_inline_hyphen(s) ==
    \E i \in 1..(Len(s) - 2) : s[i] \in WS /\ s[i + 1] = "-" /\ s[i + 2] \in WS

\* re.split(r"\s-\s+", s): leftmost matches, \s+ greedy
RECURSIVE re_split_hyphen_acc(_, _)
re_split_hyphen_acc(s, cur) ==
    IF s = <<>> THEN <<cur>>
    ELSE IF Len(s) >= 3 /\ s[1] \in WS /\ s[2] = "-" /\ s[3] \in WS
         THEN <<cur>> \o re_split_hyphen_acc(lstrip(SubSeq(s, 3, Len(s))), <<>>)
    ELSE re_split_hyphen_acc(Tail(s), Append(cur, s[1]))

re_split_hyphen(s) == re_split_hyphen_acc(s, <<>>)

\* re.search(r"(?m)^\s*\-\s+", text): ^ is the start or the place after "\n",
\* and both \s* and \s+ may run across line breaks
search_bullet(text) ==
    \E p \in 1..Len(text) :
        /\ (p = 1 \/ text[p - 1] = "\n")
        /\ \E q \in p..(Len(text) - 1) :
              /\ \A k \in p..(q - 1) : text[k] \in WS
              /\ text[q] = "-"
              /\ text[q + 1] \in WS

\* re.match(r"^\s*\-\s+(.*)", ln) on one line: whether it matches
match_bullet(ln) ==
    LET keep == {i \in 1..Len(ln) : ln[i] \notin WS}
    IN  /\ keep # {}
        /\ ln[Min(keep)] = "-"
        /\ Min(keep) < Len(ln)
        /\ ln[Min(keep) + 1] \in WS

\* m.group(1) of that match: what follows the marker and its whitespace
bullet_group(ln) ==
    LET keep == {i \in 1..Len(ln) : ln[i] \notin WS}
    IN  lstrip(SubSeq(ln, Min(keep) + 1, Len(ln)))

\* [f(x) for x in seq if x passes]: the non-blank members, in order
RECURSIVE non_blank(_)
non_blank(seq) ==
    IF seq = <<>> THEN <<>>
    ELSE IF strip(Head(seq)) # <<>> THEN <<Head(seq)>> \o non_blank(Tail(seq))
    ELSE non_blank(Tail(seq))

(***************************************************************************)
(* molsejt/qa_utils.py: the answer splitter                                *)
(***************************************************************************)
\* mutant of close_bullet: the joined block keeps its trailing whitespace
close_bullet_no_rstrip(current) == join_nl(current)

\* "\n".join(current).rstrip(): the text of a finished bullet
close_bullet(current) == rstrip(join_nl(current))

\* the for loop of _split_line_bullets_multiline with its closing append
RECURSIVE bullet_loop(_, _, _, _)
bullet_loop(lines, acc, current, in_bullet) ==
    IF lines = <<>>
    THEN IF current # <<>> THEN Append(acc, close_bullet(current)) ELSE acc
    ELSE IF match_bullet(Head(lines))
         THEN bullet_loop(Tail(lines),
                          IF current # <<>>
                          THEN Append(acc, close_bullet(current))
                          ELSE acc,
                          <<bullet_group(Head(lines))>>, TRUE)
    ELSE IF in_bullet
         THEN bullet_loop(Tail(lines), acc,
                          Append(current, rstrip(Head(lines))), TRUE)
    ELSE bullet_loop(Tail(lines), acc, current, FALSE)

_split_line_bullets_multiline(text) ==
    IF strip(text) = <<>> THEN <<>>
    ELSE IF ~search_bullet(text) THEN <<>>
    ELSE non_blank(bullet_loop(splitlines(text), <<>>, <<>>, FALSE))

\* [p.strip(" ;") for p in parts if p.strip(" ;")]
RECURSIVE strip_pieces(_, _)
strip_pieces(parts, cs) ==
    IF parts = <<>> THEN <<>>
    ELSE IF strip_chars(Head(parts), cs) # <<>>
         THEN <<strip_chars(Head(parts), cs)>> \o strip_pieces(Tail(parts), cs)
    ELSE strip_pieces(Tail(parts), cs)

\* mutant of _split_inline_hyphen_semicolon: a slash splits as a last resort
_split_inline_also_slash(text) ==
    LET s == strip(text)
    IN  IF s = <<>> THEN <<>>
        ELSE IF search_inline_hyphen(s)
             THEN strip_pieces(re_split_hyphen(s), {" ", ";"})
        ELSE IF \E i \in 1..Len(s) : s[i] = ";"
             THEN strip_pieces(split_char(s, ";"), WS)
        ELSE IF \E i \in 1..Len(s) : s[i] = "/"
             THEN strip_pieces(split_char(s, "/"), WS)
        ELSE <<s>>

_split_inline_hyphen_semicolon(text) ==
    LET s == strip(text)
    IN  IF s = <<>> THEN <<>>
        ELSE IF search_inline_hyphen(s)
             THEN strip_pieces(re_split_hyphen(s), {" ", ";"})
        ELSE IF \E i \in 1..Len(s) : s[i] = ";"
             THEN strip_pieces(split_char(s, ";"), WS)
        ELSE <<s>>

\* The caller (beolvas_csv_dict, line 120) turns None into "", so the None
\* branch of line 80 is not reachable and a cell is always a text here.
_answers_from_cell(c) ==
    LET txt     == strip(normalize_newlines(c))
        bullets == _split_line_bullets_multiline(txt)
        inline  == _split_inline_hyphen_semicolon(txt)
    IN  IF bullets # <<>> THEN bullets
        ELSE IF inline # <<>> THEN inline
        ELSE IF txt # <<>> THEN <<txt>> ELSE <<>>

(***************************************************************************)
(* Inputs of the splitter                                                  *)
(***************************************************************************)
SplitAlphabet == {"a", "/", " ", "-", ";", "\n"}
ItemAlphabet  == {"a", "/", " ", "-", ";"}

Texts(A, len) == UNION {[1..k -> A] : k \in 0..len}

\* two-bullet blocks "- x\n- y"
BulletCells ==
    {<<"-", " ">> \o x \o <<"\n", "-", " ">> \o y :
        x \in Texts(ItemAlphabet, MaxItemLen), y \in Texts(ItemAlphabet, MaxItemLen)}

\* "H2O / dihidrogen-oxid", "NaCl; koso", and cells with \r\n and \r line ends
SampleCells ==
    { <<"a", " ", "/", " ", "a", "-", "a">>,
      <<"a", ";", " ", "a">>,
      <<"-", " ", "a", "\r", "\n", "-", " ", "a", ";", "a">>,
      <<"a", "\r", "-", " ", "a", "\r", " ", "/">>,
      <<"a", "\r", "\n", "/">> }

Cells == Texts(SplitAlphabet, MaxCellLen) \cup BulletCells \cup SampleCells

(***************************************************************************)
(* SpecSplit: one cell is split, then one of its answers is split alone    *)
(***************************************************************************)
\* a QuestionBank with no key
EmptyBank == [q \in {} |-> <<>>]

SplitIdle == cell = <<>> /\ answers = <<>> /\ re_in = <<>> /\ re_out = <<>>

\* no row is being visited
NoRow == [q |-> <<>>, a |-> <<>>]

BankIdle ==
    /\ parser = "none"
    /\ file = [exists |-> FALSE, fields |-> FALSE, cols |-> {}, nrows |-> 0]
    /\ nleft = 0
    /\ sawq = FALSE
    /\ qa = EmptyBank
    /\ row = NoRow
    /\ ret = <<>>
    /\ vegyes = EmptyBank
    /\ vegyes_rev = EmptyBank

SampleIdle ==
    /\ src1 = [kind |-> "none"]
    /\ src2 = [kind |-> "none"]
    /\ n = 0
    /\ call = [fn |-> "none"]
    /\ out = [kind |-> "none"]

QnumIdle == kerdes = <<>> /\ qnum = [some |-> FALSE]

\* run_app has not run: the session state as lines 144-151 create it
SessionIdle ==
    /\ qa_keys = <<>>
    /\ kor_kerdesei = <<>>
    /\ show_answer = <<>>
    /\ itel = <<>>
    /\ osszegzes = [some |-> FALSE]

InitSplit ==
    /\ pc = "input"
    /\ cell \in Cells
    /\ answers = <<>>
    /\ re_in = <<>>
    /\ re_out = <<>>
    /\ BankIdle
    /\ SampleIdle
    /\ QnumIdle
    /\ SessionIdle

SplitCell ==
    /\ pc = "input"
    /\ answers' = _answers_from_cell(cell)
    /\ pc' = "split"
    /\ UNCHANGED <<cell, re_in, re_out, bankVars, sampleVars, qnumVars, sessionVars>>

Resplit ==
    /\ pc = "split"
    /\ \E i \in 1..Len(answers) :
          /\ re_in' = answers[i]
          /\ re_out' = _answers_from_cell(answers[i])
    /\ pc' = "resplit"
    /\ UNCHANGED <<cell, answers, bankVars, sampleVars, qnumVars, sessionVars>>

NextSplit == SplitCell \/ Resplit

SpecSplit == InitSplit /\ [][NextSplit]_vars

(***************************************************************************)
(* Claims about the splitter                                               *)
(***************************************************************************)
\* the trimmed cell, line ends normalised to "\n" (spec 6)
Trimmed(c) == strip(normalize_newlines(c))

\* some line of t begins, after leading whitespace, with the marker "- "
HasBulletLine(t) == \E i \in 1..Len(splitlines(t)) : match_bullet(splitlines(t)[i])

\* t holds a hyphen with whitespace before and after it
HasInlineHyphen(t) == search_inline_hyphen(t)

HasSemicolon(t) == \E i \in 1..Len(t) : t[i] = ";"

NoSeparator(t) == ~HasBulletLine(t) /\ ~HasInlineHyphen(t) /\ ~HasSemicolon(t)

\* what the strict priority order of spec 4.0 returns for a trimmed cell t
PriorityResult(t) ==
    IF HasBulletLine(t)
    THEN non_blank(bullet_loop(splitlines(t), <<>>, <<>>, FALSE))
    ELSE IF HasInlineHyphen(t) THEN strip_pieces(re_split_hyphen(t), {" ", ";"})
    ELSE IF HasSemicolon(t) THEN strip_pieces(split_char(t, ";"), WS)
    ELSE IF t = <<>> THEN <<>> ELSE <<t>>

\* C1: for every cell the returned list is the split on the highest-priority
\* separator the cell holds (bullet lines, then inline hyphen, then semicolon,
\* then the whole trimmed cell); a lower-priority separator never decides it.
C1_StrictPriority ==
    pc # "input" => answers = PriorityResult(Trimmed(cell))

\* C1 away from the cells whose chosen split leaves no answer: there the
\* priority order does decide the result.
C1_PriorityWhenSplitNonEmpty ==
    (pc # "input" /\ PriorityResult(Trimmed(cell)) # <<>>)
        => answers = PriorityResult(Trimmed(cell))

\* C2 as stated: a cell with no bullet line, inline hyphen or semicolon gives
\* exactly one answer, the trimmed cell.
C2_Original ==
    (pc # "input" /\ NoSeparator(Trimmed(cell)))
        => answers = <<Trimmed(cell)>>

\* C2 amended: a non-blank cell with no bullet line, no inline hyphen separator
\* and no semicolon gives exactly one answer, the trimmed cell (a slash never
\* splits); a blank cell gives the empty list.
C2_SingleAnswer ==
    (pc # "input" /\ NoSeparator(Trimmed(cell)))
        => answers = IF Trimmed(cell) = <<>> THEN <<>> ELSE <<Trimmed(cell)>>

C2_Witness ==
    /\ pc = "split"
    /\ NoSeparator(Trimmed(cell))
    /\ \E i \in 1..Len(cell) : cell[i] = "/"
    /\ \E i \in 1..Len(cell) : cell[i] = "-"
    /\ Len(Trimmed(cell)) < Len(cell)
    /\ answers = <<Trimmed(cell)>>

\* C3 as stated: every answer of a cell with a bullet line, split again alone,
\* comes back as the one-element list holding it.
C3_Original ==
    (pc = "resplit" /\ HasBulletLine(Trimmed(cell))) => re_out = <<re_in>>

\* C3 amended: every answer of a cell with a bullet line that does not start
\* with whitespace and itself holds no bullet line, inline hyphen separator or
\* semicolon comes back, split again alone, as the one-element list holding it.
C3_ResplitPlainAnswer ==
    (/\ pc = "resplit"
     /\ HasBulletLine(Trimmed(cell))
     /\ re_in # <<>> /\ re_in[1] \notin WS
     /\ NoSeparator(re_in))
        => re_out = <<re_in>>

C3_Witness ==
    /\ pc = "resplit"
    /\ HasBulletLine(Trimmed(cell))
    /\ Len(answers) = 2
    /\ re_in = answers[1]
    /\ NoSeparator(re_in)
    /\ \E i \in 1..Len(re_in) : re_in[i] = "/"
    /\ re_out = <<re_in>>

(***************************************************************************)
(* molsejt/qa_utils.py: beolvas_csv_dict and _osszefesul_qa                *)
(***************************************************************************)
\* the sources valassz_forras_es_kerdesek reads and merges: fajl_1, fajl_2
NumSources == 2

\* str.lower() on the letters of the inputs
lower_char(c) ==
    CASE c = "A" -> "a"
      [] c = "B" -> "b"
      [] c = "Q" -> "q"
      [] c = "R" -> "r"
      [] c = "S" -> "s"
      [] OTHER -> c

lower(s) == [i \in 1..Len(s) |-> lower_char(s[i])]

\* lines 127-133: the unique answers of merged, first occurrence kept, trimmed
RECURSIVE uniq_loop(_, _, _)
uniq_loop(merged, seen, uniq) ==
    IF merged = <<>> THEN uniq
    ELSE LET key == lower(strip(Head(merged)))
         IN  IF key # <<>> /\ key \notin seen
             THEN uniq_loop(Tail(merged), seen \cup {key},
                            Append(uniq, strip(Head(merged))))
             ELSE uniq_loop(Tail(merged), seen, uniq)

\* lines 119-136: one pass of the for loop over one row
dict_row(d, qcell, acell) ==
    LET question == strip(qcell)
        ans      == _answers_from_cell(acell)
    IN  IF question = <<>> THEN d
        ELSE IF question \in DOMAIN d
             THEN [q \in DOMAIN d |->
                      IF q = question THEN uniq_loop(d[q] \o ans, {}, <<>>)
                      ELSE d[q]]
        ELSE [q \in DOMAIN d \cup {question} |->
                 IF q = question THEN ans ELSE d[q]]

\* mutant of dict_result: an empty dict is returned like any other
dict_result_unchecked(d) == [kind |-> "ok", bank |-> d]

\* lines 138-140: what the call ends with once the rows are read
dict_result(d) ==
    IF DOMAIN d = {} THEN [kind |-> "ValueError"]
    ELSE [kind |-> "ok", bank |-> d]

\* lines 100-115: what the call ends with before any row is visited, or
\* "rows" when it goes on to the loop
dict_open(f) ==
    IF ~f.exists THEN "FileNotFoundError"
    ELSE IF f.nrows = 0 THEN "ValueError"
    ELSE IF "question" \notin f.cols \/ "answer" \notin f.cols THEN "KeyError"
    ELSE "rows"

\* [a.strip() for a in ans_list if a and a.strip()]
RECURSIVE stripped_non_blank(_)
stripped_non_blank(ans_list) ==
    IF ans_list = <<>> THEN <<>>
    ELSE IF strip(Head(ans_list)) # <<>>
         THEN <<strip(Head(ans_list))>> \o stripped_non_blank(Tail(ans_list))
    ELSE stripped_non_blank(Tail(ans_list))

\* mutant of merge_key: answers are compared as written
merge_key_exact(a) == a

\* line 170: the key two answers are compared by
merge_key(a) == lower(a)

\* lines 167-173
RECURSIVE merge_uniq_loop(_, _, _)
merge_uniq_loop(merged, seen, uniq) ==
    IF merged = <<>> THEN uniq
    ELSE LET key == merge_key(Head(merged))
         IN  IF key # <<>> /\ key \notin seen
             THEN merge_uniq_loop(Tail(merged), seen \cup {key},
                                  Append(uniq, Head(merged)))
             ELSE merge_uniq_loop(Tail(merged), seen, uniq)

\* mutant of merge_one: the first source to hold a key is authoritative
merge_one_first_wins(v, d) ==
    [q \in DOMAIN v \cup DOMAIN d |->
        IF q \in DOMAIN v THEN v[q] ELSE stripped_non_blank(d[q])]

\* lines 162-174: one source folded into vegyes (the keys do not interact)
merge_one(v, d) ==
    [q \in DOMAIN v \cup DOMAIN d |->
        IF q \notin DOMAIN d THEN v[q]
        ELSE IF q \notin DOMAIN v THEN stripped_non_blank(d[q])
        ELSE merge_uniq_loop(v[q] \o stripped_non_blank(d[q]), {}, <<>>)]

RECURSIVE osszefesul_loop(_, _)
osszefesul_loop(qadictok, v) ==
    IF qadictok = <<>> THEN v
    ELSE osszefesul_loop(Tail(qadictok), merge_one(v, Head(qadictok)))

_osszefesul_qa(qadictok) == osszefesul_loop(qadictok, EmptyBank)

(***************************************************************************)
(* orvosi_kemia/app_kemia.py: beolvas_csv                                  *)
(***************************************************************************)
\* re.split(r"([!?])", q_raw, maxsplit=1): <<before, mark, after>>, or the
\* one-element list when q_raw holds no mark
split_first_mark(s) ==
    LET marks == {i \in 1..Len(s) : s[i] \in {"!", "?"}}
    IN  IF marks = {} THEN <<s>>
        ELSE <<SubSeq(s, 1, Min(marks) - 1), <<s[Min(marks)]>>,
               SubSeq(s, Min(marks) + 1, Len(s))>>

\* re.split(r";|\n", a_raw): cur is the piece being collected
RECURSIVE split_semicolon_newline_acc(_, _)
split_semicolon_newline_acc(s, cur) ==
    IF s = <<>> THEN <<cur>>
    ELSE IF s[1] \in {";", "\n"}
         THEN <<cur>> \o split_semicolon_newline_acc(Tail(s), <<>>)
    ELSE split_semicolon_newline_acc(Tail(s), Append(cur, s[1]))

\* mutant of app_row_cells: the question cell is never split at a mark
app_row_cells_no_split(f, qcell, acell) ==
    [q |-> IF "question" \in f.cols THEN strip(qcell) ELSE <<>>,
     a |-> IF "answer" \in f.cols THEN strip(acell) ELSE <<>>]

\* lines 38-46: the question and the raw answer text of one row
app_row_cells(f, qcell, acell) ==
    LET q0    == IF "question" \in f.cols THEN strip(qcell) ELSE <<>>
        a0    == IF "answer" \in f.cols THEN strip(acell) ELSE <<>>
        parts == split_first_mark(q0)
    IN  IF a0 = <<>> /\ q0 # <<>> /\ Len(parts) >= 3
        THEN [q |-> strip(parts[1] \o parts[2]), a |-> strip(parts[3])]
        ELSE [q |-> q0, a |-> a0]

\* lines 51-57: the answer list of a row
app_answers(a_raw) ==
    IF a_raw # <<>>
    THEN LET found == strip_pieces(split_semicolon_newline_acc(a_raw, <<>>), WS)
         IN  IF found = <<>> THEN << <<>> >> ELSE found
    ELSE << <<>> >>

\* lines 37-59: one pass of the for loop over one row
app_row(d, f, qcell, acell) ==
    LET c == app_row_cells(f, qcell, acell)
    IN  IF c.q = <<>> THEN d
        ELSE [q \in DOMAIN d \cup {c.q} |->
                 IF q = c.q THEN app_answers(c.a) ELSE d[q]]

(***************************************************************************)
(* Inputs of the readers                                                   *)
(***************************************************************************)
\* exists: the path is a file; fields: it has a header row; cols: the
\* columns of the header the reader resolves; nrows: its data rows
FileShapes ==
    {f \in [exists : BOOLEAN, fields : BOOLEAN,
            cols : SUBSET {"question", "answer"}, nrows : 0..MaxRows] :
        /\ (~f.exists => ~f.fields)
        /\ (~f.fields => f.cols = {} /\ f.nrows = 0)}

DictQCells == { <<>>, <<"Q">>, <<" ", "Q", " ">>, <<"R">>, <<"Q", "?", "a">> }

DictACells ==
    { <<>>, <<"a">>, <<"A", ";", "a">>, <<"b">>, <<"-", " ", "\n", " ", "b">> }

AppQCells ==
    { <<>>, <<"Q">>, <<"Q", "?", "a", ";", "b">>, <<" ", "R", "!">>,
      <<"Q", "?", " ", "!", "a">> }

AppACells == { <<>>, <<"a", ";", "a">>, <<";">>, <<"b", "\n", "a">> }

(***************************************************************************)
(* SpecBank: the readers are called, two read banks are merged             *)
(***************************************************************************)
InitBank ==
    /\ pc = "call"
    /\ SplitIdle
    /\ BankIdle
    /\ SampleIdle
    /\ QnumIdle
    /\ SessionIdle

AllOk == \A i \in 1..Len(ret) : ret[i].kind = "ok"

\* beolvas_csv_dict up to its loop
OpenCsvDict ==
    /\ pc = "call"
    /\ parser \in {"none", "dict"}
    /\ Len(ret) < NumSources
    /\ AllOk
    /\ \E f \in FileShapes :
          /\ file' = f
          /\ IF dict_open(f) = "rows"
             THEN /\ pc' = "rows"
                  /\ nleft' = f.nrows
                  /\ ret' = ret
             ELSE /\ pc' = "call"
                  /\ nleft' = 0
                  /\ ret' = Append(ret, [kind |-> dict_open(f)])
    /\ parser' = "dict"
    /\ sawq' = FALSE
    /\ qa' = EmptyBank
    /\ row' = NoRow
    /\ UNCHANGED <<vegyes, vegyes_rev, splitVars, sampleVars, qnumVars, sessionVars>>

\* one row of beolvas_csv_dict's loop
ReadRowDict ==
    /\ pc = "rows"
    /\ parser = "dict"
    /\ nleft > 0
    /\ \E qcell \in DictQCells, acell \in DictACells :
          /\ qa' = dict_row(qa, qcell, acell)
          /\ row' = [q |-> qcell, a |-> acell]
          /\ sawq' = (sawq \/ strip(qcell) # <<>>)
    /\ nleft' = nleft - 1
    /\ UNCHANGED <<pc, parser, file, ret, vegyes, vegyes_rev, splitVars, sampleVars, qnumVars, sessionVars>>

\* beolvas_csv_dict after its loop
EndCsvDict ==
    /\ pc = "rows"
    /\ parser = "dict"
    /\ nleft = 0
    /\ ret' = Append(ret, dict_result(qa))
    /\ pc' = "call"
    /\ row' = NoRow
    /\ UNCHANGED <<parser, file, nleft, sawq, qa, vegyes, vegyes_rev, splitVars, sampleVars, qnumVars, sessionVars>>

\* _osszefesul_qa(qa1, qa2) of valassz_forras_es_kerdesek
Merge ==
    /\ pc = "call"
    /\ parser = "dict"
    /\ Len(ret) = NumSources
    /\ AllOk
    /\ vegyes' = _osszefesul_qa([i \in 1..Len(ret) |-> ret[i].bank])
    /\ pc' = "merged"
    /\ UNCHANGED <<parser, file, nleft, sawq, qa, row, ret, vegyes_rev, splitVars, sampleVars, qnumVars, sessionVars>>

\* the members of the list t
Range(t) == {t[i] : i \in 1..Len(t)}

\* the sequence t, last member first
Reversed(t) == [i \in 1..Len(t) |-> t[Len(t) + 1 - i]]

\* _osszefesul_qa(qa2, qa1): the same banks merged with the sources swapped
MergeSwapped ==
    /\ pc = "merged"
    /\ vegyes_rev' = _osszefesul_qa(Reversed([i \in 1..Len(ret) |-> ret[i].bank]))
    /\ pc' = "remerged"
    /\ UNCHANGED <<parser, file, nleft, sawq, qa, row, ret, vegyes, splitVars, sampleVars, qnumVars, sessionVars>>

\* beolvas_csv up to its loop
OpenCsvApp ==
    /\ pc = "call"
    /\ parser = "none"
    /\ \E f \in FileShapes :
          /\ file' = f
          /\ IF ~f.exists
             THEN /\ pc' = "done"
                  /\ nleft' = 0
                  /\ ret' = <<[kind |-> "FileNotFoundError"]>>
             ELSE IF ~f.fields
             THEN /\ pc' = "done"
                  /\ nleft' = 0
                  /\ ret' = <<[kind |-> "ok", bank |-> EmptyBank]>>
             ELSE /\ pc' = "rows"
                  /\ nleft' = f.nrows
                  /\ ret' = ret
    /\ parser' = "app"
    /\ sawq' = FALSE
    /\ qa' = EmptyBank
    /\ row' = NoRow
    /\ UNCHANGED <<vegyes, vegyes_rev, splitVars, sampleVars, qnumVars, sessionVars>>

\* one row of beolvas_csv's loop
ReadRowApp ==
    /\ pc = "rows"
    /\ parser = "app"
    /\ nleft > 0
    /\ \E qcell \in AppQCells, acell \in AppACells :
          /\ qa' = app_row(qa, file, qcell, acell)
          /\ row' = [q |-> qcell, a |-> acell]
          /\ sawq' = (sawq \/ strip(qcell) # <<>>)
    /\ nleft' = nleft - 1
    /\ UNCHANGED <<pc, parser, file, ret, vegyes, vegyes_rev, splitVars, sampleVars, qnumVars, sessionVars>>

\* beolvas_csv after its loop
EndCsvApp ==
    /\ pc = "rows"
    /\ parser = "app"
    /\ nleft = 0
    /\ ret' = <<[kind |-> "ok", bank |-> qa]>>
    /\ pc' = "done"
    /\ row' = NoRow
    /\ UNCHANGED <<parser, file, nleft, sawq, qa, vegyes, vegyes_rev, splitVars, sampleVars, qnumVars, sessionVars>>

NextBank ==
    \/ OpenCsvDict \/ ReadRowDict \/ EndCsvDict \/ Merge \/ MergeSwapped
    \/ OpenCsvApp \/ ReadRowApp \/ EndCsvApp

SpecBank == InitBank /\ [][NextBank]_vars

(***************************************************************************)
(* Claims about the banks                                                  *)
(***************************************************************************)
\* the key two answers are compared by: trimmed, case folded
Norm(a) == lower(strip(a))

\* the lists the read banks hold for question q, concatenated in call order
RECURSIVE ConcatFrom(_, _)
ConcatFrom(q, i) ==
    IF i > Len(ret) THEN <<>>
    ELSE (IF q \in DOMAIN ret[i].bank THEN ret[i].bank[q] ELSE <<>>)
         \o ConcatFrom(q, i + 1)

InSeveral(q) == Cardinality({i \in 1..Len(ret) : q \in DOMAIN ret[i].bank}) > 1

\* the members of c that equal no earlier member under Norm, in order
FirstSeen(c) ==
    LET K == {i \in 1..Len(c) : \A j \in 1..(i - 1) : Norm(c[j]) # Norm(c[i])}
    IN  [k \in 1..Cardinality(K) |->
            c[CHOOSE i \in K : Cardinality({j \in K : j <= i}) = k]]

\* C4 as stated: the merged bank's keys are the union of the inputs' keys, and
\* for a key of several inputs the merged list is the concatenation of their
\* lists with every answer that equals an earlier one (case-insensitive,
\* trimmed) removed.
C4_Original ==
    pc = "merged" =>
        /\ DOMAIN vegyes = UNION {DOMAIN ret[i].bank : i \in 1..Len(ret)}
        /\ \A q \in DOMAIN vegyes :
              InSeveral(q) => vegyes[q] = FirstSeen(ConcatFrom(q, 1))

\* C4 amended: as C4, each kept answer being returned trimmed of the
\* whitespace around it.
C4_MergeFirstSeenTrimmed ==
    pc = "merged" =>
        /\ DOMAIN vegyes = UNION {DOMAIN ret[i].bank : i \in 1..Len(ret)}
        /\ \A q \in DOMAIN vegyes :
              InSeveral(q) =>
                  vegyes[q] = [k \in 1..Len(FirstSeen(ConcatFrom(q, 1))) |->
                                  strip(FirstSeen(ConcatFrom(q, 1))[k])]

C4_Witness ==
    /\ pc = "merged"
    /\ \E q \in DOMAIN vegyes :
          /\ InSeveral(q)
          /\ Len(vegyes[q]) >= 2
          /\ \E i \in 1..Len(ret[1].bank[q]), j \in 1..Len(ret[2].bank[q]) :
                /\ ret[1].bank[q][i] # ret[2].bank[q][j]
                /\ Norm(ret[1].bank[q][i]) = Norm(ret[2].bank[q][j])
    /\ \E q \in DOMAIN vegyes : ~InSeveral(q)

\* the QuestionBank invariant of spec 3
BankInvariant(b) ==
    \A q \in DOMAIN b :
        /\ strip(q) # <<>>
        /\ \A i, j \in 1..Len(b[q]) : i # j => Norm(b[q][i]) # Norm(b[q][j])

\* C5: every bank beolvas_csv_dict or _osszefesul_qa returns has non-blank
\* keys and no two answers of one entry equal under case-insensitive, trimmed
\* comparison.
C5_BankInvariant ==
    parser = "dict" =>
        /\ \A i \in 1..Len(ret) : ret[i].kind = "ok" => BankInvariant(ret[i].bank)
        /\ pc = "merged" => BankInvariant(vegyes)

\* a reader call on an existing file has just ended; Last is its outcome
Returned == pc \in {"call", "done"} /\ Len(ret) >= 1 /\ file.exists
Last == ret[Len(ret)]

HeaderLacks == "question" \notin file.cols \/ "answer" \notin file.cols
NoQuestionRow == file.nrows = 0 \/ ~sawq

\* C10 as stated: a column-based CSV parse of a source whose header lacks a
\* question or answer column fails with a configuration error (KeyError), of a
\* source that is empty or has no question row with a format error
\* (ValueError); in both cases no bank is returned.
C10_Original ==
    Returned =>
        /\ (HeaderLacks \/ NoQuestionRow) => Last.kind # "ok"
        /\ (HeaderLacks /\ file.nrows > 0) => Last.kind = "KeyError"
        /\ (~HeaderLacks /\ NoQuestionRow) => Last.kind = "ValueError"

\* C10 amended: beolvas_csv_dict returns no bank for such a source: it fails
\* with ValueError when there is no data row, else with KeyError when the
\* header lacks a column, else with ValueError when no row has a question; a
\* bank it returns is never empty. beolvas_csv of app_kemia never fails on an
\* existing file: it returns the empty bank exactly when the question column
\* is not resolved or no row has a question.
C10_NoBankOrEmptyBank ==
    Returned =>
        /\ parser = "dict" =>
              /\ Last.kind = IF file.nrows = 0 THEN "ValueError"
                             ELSE IF HeaderLacks THEN "KeyError"
                             ELSE IF ~sawq THEN "ValueError"
                             ELSE "ok"
              /\ Last.kind = "ok" => DOMAIN Last.bank # {}
        /\ parser = "app" =>
              /\ Last.kind = "ok"
              /\ DOMAIN Last.bank = {} <=>
                    ("question" \notin file.cols \/ NoQuestionRow)

C10_Witness ==
    /\ Returned
    /\ parser = "dict"
    /\ file.nrows >= 2
    /\ ~HeaderLacks
    /\ ~sawq
    /\ Last.kind = "ValueError"

\* the row of the source just visited: the values of its question and answer
\* columns, empty for a column the header does not give
RowQ == IF "question" \in file.cols THEN row.q ELSE <<>>
RowA == IF "answer" \in file.cols THEN row.a ELSE <<>>

Marks(s) == {i \in 1..Len(s) : s[i] \in {"?", "!"}}

\* the question cell s up to and including its first mark, trimmed, and the
\* text after that mark
UpToMark(s) == strip(SubSeq(s, 1, Min(Marks(s))))
AfterMark(s) == SubSeq(s, Min(Marks(s)) + 1, Len(s))

\* the answer list the running reader makes of a raw answer text
AnswersOf(a_raw) ==
    IF parser = "app" THEN app_answers(strip(a_raw)) ELSE _answers_from_cell(a_raw)

\* a step that visits one data row
RowVisited == pc = "rows" /\ nleft' = nleft - 1

\* C11 as stated: in a column-based reader, a visited row with an empty answer
\* column and a '?' or '!' in its question cell is split at the first mark
\* (the trimmed text up to and including the mark is the key, the remainder
\* the raw answer text of its entry); a row with an empty question adds no key.
C11_Original ==
    [][RowVisited =>
          /\ (strip(RowA') = <<>> /\ Marks(strip(RowQ')) # {}) =>
                /\ UpToMark(strip(RowQ')) \in DOMAIN qa'
                /\ DOMAIN qa' = DOMAIN qa \cup {UpToMark(strip(RowQ'))}
                /\ UpToMark(strip(RowQ')) \notin DOMAIN qa =>
                      qa'[UpToMark(strip(RowQ'))] = AnswersOf(AfterMark(strip(RowQ')))
          /\ strip(RowQ') = <<>> => qa' = qa]_vars

\* C11 amended: beolvas_csv of app_kemia splits such a row at the first mark
\* and gives the key the answers of the remainder, replacing an earlier entry
\* of that key; beolvas_csv_dict of molsejt never splits the question cell:
\* the whole trimmed cell is the key and the answers come from the answer
\* column alone. In both a row with an empty question changes nothing.
C11_SplitAtMarkInAppOnly ==
    [][RowVisited =>
          /\ (parser = "app" /\ strip(RowA') = <<>> /\ Marks(strip(RowQ')) # {}) =>
                /\ DOMAIN qa' = DOMAIN qa \cup {UpToMark(strip(RowQ'))}
                /\ qa'[UpToMark(strip(RowQ'))] = AnswersOf(AfterMark(strip(RowQ')))
                /\ \A q \in DOMAIN qa \ {UpToMark(strip(RowQ'))} : qa'[q] = qa[q]
          /\ (parser = "dict" /\ strip(RowQ') # <<>>) =>
                /\ DOMAIN qa' = DOMAIN qa \cup {strip(RowQ')}
                /\ strip(RowQ') \notin DOMAIN qa =>
                      qa'[strip(RowQ')] = AnswersOf(RowA')
                /\ \A q \in DOMAIN qa \ {strip(RowQ')} : qa'[q] = qa[q]
          /\ strip(RowQ') = <<>> => qa' = qa]_vars

C11_Witness ==
    /\ pc = "rows"
    /\ parser = "app"
    /\ "question" \in file.cols
    /\ row = [q |-> <<"Q", "?", " ", "!", "a">>, a |-> <<>>]
    /\ DOMAIN qa = {<<"Q">>, <<"Q", "?">>}
    /\ qa[<<"Q", "?">>] = << <<"!", "a">> >>

\* C12 as stated: for every question key, the set of answer strings of the
\* merge of two banks equals that of the merge of the same banks swapped.
C12_Original ==
    pc = "remerged" =>
        /\ DOMAIN vegyes = DOMAIN vegyes_rev
        /\ \A q \in DOMAIN vegyes : Range(vegyes[q]) = Range(vegyes_rev[q])

\* C12 amended: the two merges have the same keys and, for every key, the
\* same set of answers up to letter case (each merge keeps the spelling it
\* met first).
C12_CommutativeUpToCase ==
    pc = "remerged" =>
        /\ DOMAIN vegyes = DOMAIN vegyes_rev
        /\ \A q \in DOMAIN vegyes :
              {lower(a) : a \in Range(vegyes[q])}
                  = {lower(a) : a \in Range(vegyes_rev[q])}

C12_Witness ==
    /\ pc = "remerged"
    /\ \E q \in DOMAIN vegyes :
          /\ InSeveral(q)
          /\ Len(vegyes[q]) >= 2
          /\ vegyes[q] # vegyes_rev[q]
          /\ Range(vegyes[q]) = Range(vegyes_rev[q])

(***************************************************************************)
(* The samplers                                                            *)
(***************************************************************************)
\* random.sample(list(K), k): every list of k distinct members of K
Samples(K, k) ==
    {t \in [1..k -> K] : \A i, j \in 1..k : i # j => t[i] # t[j]}

Count(t, x) == Cardinality({i \in 1..Len(t) : t[i] = x})

\* random.shuffle(t): every reordering of t
Shuffles(t) ==
    {u \in [1..Len(t) -> Range(t)] : \A x \in Range(t) : Count(u, x) = Count(t, x)}

\* mutant of valassz_kerdeseket: a request above the bank's size is cut
\* down to the whole bank, as app_kemia's variant does
valassz_kerdeseket_clamped(d, k) ==
    IF k >= Cardinality(DOMAIN d)
    THEN {[kind |-> "ok", kerd |-> t] :
             t \in Samples(DOMAIN d, Cardinality(DOMAIN d))}
    ELSE IF k < 0 THEN {[kind |-> "ValueError"]}
    ELSE {[kind |-> "ok", kerd |-> t] : t \in Samples(DOMAIN d, k)}

\* molsejt/qa_utils.py valassz_kerdeseket: the outcomes the call can have
\* (random.sample itself raises ValueError for a negative k)
valassz_kerdeseket(d, k) ==
    IF k > Cardinality(DOMAIN d) THEN {[kind |-> "ValueError"]}
    ELSE IF k < 0 THEN {[kind |-> "ValueError"]}
    ELSE {[kind |-> "ok", kerd |-> t] : t \in Samples(DOMAIN d, k)}

\* orvosi_kemai/qa_utils_kemia.py valassz_kerdeseket
kemia_valassz_kerdeseket(d, k) ==
    IF k > Cardinality(DOMAIN d) THEN {[kind |-> "ValueError"]}
    ELSE IF k < 0 THEN {[kind |-> "ValueError"]}
    ELSE {[kind |-> "ok", kerd |-> t] : t \in Samples(DOMAIN d, k)}

\* orvosi_kemia/app_kemia.py valassz_kerdeseket
app_valassz_kerdeseket(d, db) ==
    IF Cardinality(DOMAIN d) <= db
    THEN {[kind |-> "ok", kerd |-> t] :
             t \in Samples(DOMAIN d, Cardinality(DOMAIN d))}
    ELSE IF db < 0 THEN {[kind |-> "ValueError"]}
    ELSE {[kind |-> "ok", kerd |-> t] : t \in Samples(DOMAIN d, db)}

\* mutant of mixed_n1: the odd question goes to the second source
mixed_n1_floor(k) == k \div 2

\* line 232: n1 = math.ceil(n / 2), for the positive n that reach it
mixed_n1(k) == (k + 1) \div 2

ModSzigorlat == <<"s", "z", "i", "g", "o", "r", "l", "a", "t">>

\* lines 209-225: modes "1" and "2", s being what beolvas_csv_dict gave
forras_single(s, k) ==
    IF s.kind # "ok" THEN {[kind |-> s.kind]}
    ELSE IF k > Cardinality(DOMAIN s.bank) THEN {[kind |-> "ValueError"]}
    ELSE {[kind |-> o.kind, kerd |-> o.kerd, bank |-> s.bank] :
             o \in valassz_kerdeseket(s.bank, k)}

\* lines 228-247: mode "3" / "szigorlat"
forras_mixed(s1, s2, k) ==
    IF s1.kind # "ok" THEN {[kind |-> s1.kind]}
    ELSE IF s2.kind # "ok" THEN {[kind |-> s2.kind]}
    ELSE LET n1 == mixed_n1(k)
             n2 == k - n1
         IN  IF n1 > Cardinality(DOMAIN s1.bank) \/ n2 > Cardinality(DOMAIN s2.bank)
             THEN {[kind |-> "ValueError"]}
             ELSE UNION {
                    IF o1.kind # "ok" THEN {[kind |-> o1.kind]}
                    ELSE IF o2.kind # "ok" THEN {[kind |-> o2.kind]}
                    ELSE {[kind |-> "ok", kerd |-> u,
                           bank |-> _osszefesul_qa(<<s1.bank, s2.bank>>)] :
                             u \in Shuffles(o1.kerd \o o2.kerd)} :
                    o1 \in valassz_kerdeseket(s1.bank, n1),
                    o2 \in valassz_kerdeseket(s2.bank, n2)}

\* molsejt/qa_utils.py valassz_forras_es_kerdesek: the outcomes of a call, s1
\* and s2 being what reading fajl_1 and fajl_2 gives
valassz_forras_es_kerdesek(mod, k, s1, s2) ==
    LET mod_norm == lower(strip(mod))
    IN  IF mod_norm \notin {<<"1">>, <<"2">>, <<"3">>, ModSzigorlat}
        THEN {[kind |-> "ValueError"]}
        ELSE IF k <= 0 THEN {[kind |-> "ValueError"]}
        ELSE IF mod_norm = <<"1">> THEN forras_single(s1, k)
        ELSE IF mod_norm = <<"2">> THEN forras_single(s2, k)
        ELSE forras_mixed(s1, s2, k)

(***************************************************************************)
(* Inputs of the samplers                                                  *)
(***************************************************************************)
SampleKeys == {<<"Q">>, <<"R">>, <<"S">>}

\* what reading a source can give: a bank whose entries hold ans, or an error
Sources(ans) ==
    {[kind |-> "ok", bank |-> [q \in K |-> <<ans>>]] : K \in SUBSET SampleKeys}
    \cup {[kind |-> e] : e \in {"ValueError", "KeyError", "FileNotFoundError"}}

Mods ==
    { <<"1">>, <<"2">>, <<" ", "3">>, <<"4">>, <<>>,
      <<"S", "z", "i", "g", "o", "r", "l", "a", "t">> }

\* beolvas_csv_dict never returns an empty bank
ParserCanGive(s) == s.kind = "ok" => DOMAIN s.bank # {}

(***************************************************************************)
(* SpecSample: one sampling call on read sources                           *)
(***************************************************************************)
InitSample ==
    /\ pc = "ready"
    /\ SplitIdle
    /\ BankIdle
    /\ src1 \in Sources(<<"a">>)
    /\ src2 \in Sources(<<"A">>)
    /\ n \in -1..MaxN
    /\ call = [fn |-> "none"]
    /\ out = [kind |-> "none"]
    /\ QnumIdle
    /\ SessionIdle

CallForras ==
    /\ pc = "ready"
    /\ ParserCanGive(src1)
    /\ ParserCanGive(src2)
    /\ \E mod \in Mods :
          /\ call' = [fn |-> "valassz_forras_es_kerdesek", mod |-> mod]
          /\ out' \in valassz_forras_es_kerdesek(mod, n, src1, src2)
    /\ pc' = "sampled"
    /\ UNCHANGED <<src1, src2, n, splitVars, bankVars, qnumVars, sessionVars>>

CallMolsejt ==
    /\ pc = "ready"
    /\ src1.kind = "ok"
    /\ call' = [fn |-> "molsejt.valassz_kerdeseket"]
    /\ out' \in valassz_kerdeseket(src1.bank, n)
    /\ pc' = "sampled"
    /\ UNCHANGED <<src1, src2, n, splitVars, bankVars, qnumVars, sessionVars>>

CallKemia ==
    /\ pc = "ready"
    /\ src1.kind = "ok"
    /\ call' = [fn |-> "kemia.valassz_kerdeseket"]
    /\ out' \in kemia_valassz_kerdeseket(src1.bank, n)
    /\ pc' = "sampled"
    /\ UNCHANGED <<src1, src2, n, splitVars, bankVars, qnumVars, sessionVars>>

CallApp ==
    /\ pc = "ready"
    /\ src1.kind = "ok"
    /\ call' = [fn |-> "app.valassz_kerdeseket"]
    /\ out' \in app_valassz_kerdeseket(src1.bank, n)
    /\ pc' = "sampled"
    /\ UNCHANGED <<src1, src2, n, splitVars, bankVars, qnumVars, sessionVars>>

NextSample == CallForras \/ CallMolsejt \/ CallKemia \/ CallApp

SpecSample == InitSample /\ [][NextSample]_vars

(***************************************************************************)
(* Claims about the samplers                                               *)
(***************************************************************************)
SingleSource ==
    call.fn \in {"molsejt.valassz_kerdeseket", "kemia.valassz_kerdeseket",
                 "app.valassz_kerdeseket"}

Mixed ==
    /\ call.fn = "valassz_forras_es_kerdesek"
    /\ lower(strip(call.mod)) \in {<<"3">>, ModSzigorlat}

\* the bank the returned list is paired with
PairedBank == IF SingleSource THEN src1.bank ELSE out.bank

\* C6: the list a sampling call returns (single-source or mixed mode, also
\* when the two sources share keys) holds pairwise distinct keys and is no
\* longer than the bank it is paired with.
C6_NoDuplicates ==
    (pc = "sampled" /\ out.kind = "ok") =>
        /\ \A i, j \in 1..Len(out.kerd) : i # j => out.kerd[i] # out.kerd[j]
        /\ Len(out.kerd) <= Cardinality(DOMAIN PairedBank)

\* C7 as stated: every single-source sampler fails with a validation error
\* (ValueError) when n exceeds the bank's size.
C7_Original ==
    (pc = "sampled" /\ SingleSource /\ n > Cardinality(DOMAIN src1.bank))
        => out.kind = "ValueError"

\* C7 amended: valassz_kerdeseket of molsejt/qa_utils.py and of
\* orvosi_kemai/qa_utils_kemia.py fail with ValueError, returning no list,
\* when n exceeds the bank's size; valassz_kerdeseket of app_kemia.py does
\* not fail then: it returns every key of the bank once, in some order.
C7_SingleSourceTooMany ==
    (pc = "sampled" /\ SingleSource /\ n > Cardinality(DOMAIN src1.bank)) =>
        IF call.fn = "app.valassz_kerdeseket"
        THEN /\ out.kind = "ok"
             /\ Len(out.kerd) = Cardinality(DOMAIN src1.bank)
             /\ Range(out.kerd) = DOMAIN src1.bank
        ELSE out = [kind |-> "ValueError"]

C7_Witness ==
    /\ pc = "sampled"
    /\ call.fn = "molsejt.valassz_kerdeseket"
    /\ Cardinality(DOMAIN src1.bank) = 2
    /\ n = 3
    /\ out = [kind |-> "ValueError"]

\* the least k with 2k >= m
CeilHalf(m) == CHOOSE k \in 0..m : 2 * k >= m /\ 2 * (k - 1) < m

\* C8: a mixed-mode call for n > 0 on two read banks takes n1 = ceil(n/2)
\* keys and n2 = n - n1: if n1 and n2 fit their banks the list has length n
\* and is a reordering of n1 distinct keys of bank 1 and n2 distinct keys of
\* bank 2, otherwise the call fails with ValueError; n = 11 splits into 6, 5.
C8_MixedSplit ==
    /\ mixed_n1(11) = 6 /\ 11 - mixed_n1(11) = 5
    /\ (pc = "sampled" /\ Mixed /\ n > 0 /\ src1.kind = "ok" /\ src2.kind = "ok") =>
          LET n1 == CeilHalf(n)
              n2 == n - n1
              K1 == DOMAIN src1.bank
              K2 == DOMAIN src2.bank
          IN  IF n1 <= Cardinality(K1) /\ n2 <= Cardinality(K2)
              THEN /\ out.kind = "ok"
                   /\ Len(out.kerd) = n
                   /\ \E S1 \in SUBSET K1, S2 \in SUBSET K2 :
                         /\ Cardinality(S1) = n1
                         /\ Cardinality(S2) = n2
                         /\ \A q \in K1 \cup K2 :
                               Count(out.kerd, q) =
                                   (IF q \in S1 THEN 1 ELSE 0)
                                   + (IF q \in S2 THEN 1 ELSE 0)
              ELSE out = [kind |-> "ValueError"]

C8_Witness ==
    /\ pc = "sampled"
    /\ Mixed
    /\ n = 5
    /\ out.kind = "ok"
    /\ Len(out.kerd) = 5
    /\ Cardinality(Range(out.kerd)) = 3

(***************************************************************************)
(* orvosi_kemia/app_kemia.py: extract_qnum                                 *)
(***************************************************************************)
Digits == {"0", "1", "2", "3", "4", "5", "6", "7", "8", "9"}

\* how many characters of s, from index i on, the greedy \d+ takes
RECURSIVE digit_run(_, _)
digit_run(s, i) ==
    IF i <= Len(s) /\ s[i] \in Digits THEN 1 + digit_run(s, i + 1) ELSE 0

\* mutant of extract_qnum: the minor part may have one or two digits, \d{1,2}
extract_qnum_short_minor(k) ==
    LET t == lstrip(k)
        m == digit_run(t, 1)
    IN  IF m >= 1 /\ Len(t) >= m + 2 /\ t[m + 1] = "." /\ t[m + 2] \in Digits
        THEN [some |-> TRUE,
              id |-> SubSeq(t, 1, IF Len(t) >= m + 3 /\ t[m + 3] \in Digits
                                  THEN m + 3 ELSE m + 2)]
        ELSE [some |-> FALSE]

\* re.match(r"^\s*(\d+\.\d{2})", kerdes): group(1), or None
extract_qnum(k) ==
    LET t == lstrip(k)
        m == digit_run(t, 1)
    IN  IF /\ m >= 1
           /\ Len(t) >= m + 3
           /\ t[m + 1] = "."
           /\ t[m + 2] \in Digits
           /\ t[m + 3] \in Digits
        THEN [some |-> TRUE, id |-> SubSeq(t, 1, m + 3)]
        ELSE [some |-> FALSE]

QnumAlphabet == {"1", "0", ".", " ", "a"}

(***************************************************************************)
(* SpecQnum: extract_qnum is called on one question text                   *)
(***************************************************************************)
InitQnum ==
    /\ pc = "text"
    /\ SplitIdle
    /\ BankIdle
    /\ SampleIdle
    /\ kerdes \in Texts(QnumAlphabet, MaxQLen)
    /\ qnum = [some |-> FALSE]
    /\ SessionIdle

ExtractQnum ==
    /\ pc = "text"
    /\ qnum' = extract_qnum(kerdes)
    /\ pc' = "extracted"
    /\ UNCHANGED <<kerdes, splitVars, bankVars, sampleVars, sessionVars>>

NextQnum == ExtractQnum

SpecQnum == InitQnum /\ [][NextQnum]_vars

(***************************************************************************)
(* Claims about extract_qnum                                               *)
(***************************************************************************)
\* t, after leading whitespace, is major "." minor (then no further digit),
\* major having ma digits and minor mi digits
Numbered(t, ma, mi) ==
    /\ ma >= 1 /\ mi >= 1
    /\ Len(lstrip(t)) >= ma + 1 + mi
    /\ \A i \in 1..ma : lstrip(t)[i] \in Digits
    /\ lstrip(t)[ma + 1] = "."
    /\ \A i \in (ma + 2)..(ma + 1 + mi) : lstrip(t)[i] \in Digits
    /\ (Len(lstrip(t)) > ma + 1 + mi => lstrip(t)[ma + 2 + mi] \notin Digits)

HasNumbering(t) == \E ma, mi \in 1..Len(t) : Numbered(t, ma, mi)

\* C9 as stated: a text that begins with major.minor, minor of one to three
\* digits, gives major "." minor, the minor padded with a zero to two digits
\* when it has one digit; a text with no leading numbering gives None.
C9_Original ==
    pc = "extracted" =>
        /\ \A ma \in 1..Len(kerdes), mi \in 1..3 :
              Numbered(kerdes, ma, mi) =>
                  qnum = [some |-> TRUE,
                          id |-> SubSeq(lstrip(kerdes), 1, ma + 1)
                                 \o (IF mi = 1 THEN <<"0">> ELSE <<>>)
                                 \o SubSeq(lstrip(kerdes), ma + 2, ma + 1 + mi)]
        /\ ~HasNumbering(kerdes) => qnum = [some |-> FALSE]

\* C9 amended: a text that begins (after optional whitespace) with major "."
\* and a minor part of two or more digits gives major "." and the first two
\* digits of the minor part ("2.10. ..." gives "2.10", a three-digit minor is
\* cut to two digits); every other text, a one-digit minor part included
\* ("1.1. ..."), gives None.
C9_TwoMinorDigits ==
    pc = "extracted" =>
        /\ \A ma, mi \in 1..Len(kerdes) :
              Numbered(kerdes, ma, mi) =>
                  qnum = IF mi >= 2
                         THEN [some |-> TRUE,
                               id |-> SubSeq(lstrip(kerdes), 1, ma + 3)]
                         ELSE [some |-> FALSE]
        /\ ~HasNumbering(kerdes) => qnum = [some |-> FALSE]

C9_Witness ==
    /\ pc = "extracted"
    /\ Numbered(kerdes, 1, 3)
    /\ kerdes[1] = " "
    /\ qnum = [some |-> TRUE, id |-> <<"1", ".", "1", "0">>]

(***************************************************************************)
(* orvosi_kemia/app_kemia.py: the quiz session of run_app                  *)
(* A step is one user event: its callback, then the rerun of the script.   *)
(***************************************************************************)
KERDES_SZAM_KOR == 10
KUSZOB == 7

\* the list t started at each of its members in turn
Rotations(t) ==
    IF t = <<>> THEN {<<>>}
    ELSE {[i \in 1..Len(t) |-> t[((i + r - 1) % Len(t)) + 1]] : r \in 0..(Len(t) - 1)}

\* valassz_kerdeseket(qa, db) as uj_kor calls it: random.shuffle and
\* random.sample can give any order; the session is explored for the cyclic
\* orders of the bank's keys
kor_valassz_kerdeseket(keys, db) ==
    IF Len(keys) <= db THEN Rotations(keys)
    ELSE {SubSeq(u, 1, db) : u \in Rotations(keys)}

\* lines 237-249 over the loop of line 204: a revealed question's radio shows
\* "Helyesnek ítélem" when its verdict is None or helyes, else "Nem volt
\* helyes", and the verdict is set from what the radio shows
radio_itel(show, it) ==
    [k \in DOMAIN it |->
        IF show[k]
        THEN (IF it[k] \in {"None", "helyes"} THEN "helyes" ELSE "hibas")
        ELSE it[k]]

\* lines 188-192 and 257-261: sum(1 for k in kor_kerdesei if itel.get(k) == "helyes")
helyes_db(kor, it) == Cardinality({i \in 1..Len(kor) : it[kor[i]] = "helyes"})

\* lines 274-288: the record the download button offers, when a summary exists
export ==
    [kerdesek_szama |-> Len(kor_kerdesei),
     kuszob |-> KUSZOB,
     helyes_db |-> osszegzes.helyes_db,
     sikeres |-> osszegzes.sikeres,
     reszletek |-> [i \in 1..Len(kor_kerdesei) |-> itel[kor_kerdesei[i]]]]

(***************************************************************************)
(* SpecSession: the user clicks through a session of run_app               *)
(***************************************************************************)
InitSession ==
    /\ pc = "app"
    /\ SplitIdle
    /\ BankIdle
    /\ SampleIdle
    /\ QnumIdle
    /\ qa_keys \in {[i \in 1..b |-> i] : b \in 0..MaxBank}
    /\ kor_kerdesei = <<>>
    /\ show_answer = <<>>
    /\ itel = <<>>
    /\ osszegzes = [some |-> FALSE]

\* "Új kör indítása": lines 154-158, then the rerun (nothing is revealed)
uj_kor ==
    /\ pc = "app"
    /\ \E kor \in kor_valassz_kerdeseket(qa_keys, KERDES_SZAM_KOR) :
          /\ kor_kerdesei' = kor
          /\ show_answer' = [k \in Range(kor) |-> FALSE]
          /\ itel' = [k \in Range(kor) |-> "None"]
    /\ osszegzes' = [some |-> FALSE]
    /\ UNCHANGED <<pc, qa_keys, splitVars, bankVars, sampleVars, qnumVars>>

\* "Teljes reset": lines 160-164, then the rerun, which ends at line 181
reset_minden ==
    /\ pc = "app"
    /\ kor_kerdesei' = <<>>
    /\ show_answer' = <<>>
    /\ itel' = <<>>
    /\ osszegzes' = [some |-> FALSE]
    /\ UNCHANGED <<pc, qa_keys, splitVars, bankVars, sampleVars, qnumVars>>

\* "Válasz megjelenítése" of question i: lines 209-217, then the rerun
valasz_megjelenitese ==
    /\ pc = "app"
    /\ \E i \in 1..Len(kor_kerdesei) :
          /\ show_answer' = [show_answer EXCEPT ![kor_kerdesei[i]] = TRUE]
          /\ itel' = radio_itel(show_answer', itel)
    /\ UNCHANGED <<pc, qa_keys, kor_kerdesei, osszegzes, splitVars, bankVars,
                   sampleVars, qnumVars>>

\* the user picks the other option of the radio of question i: lines 239-249
onertekeles ==
    /\ pc = "app"
    /\ \E i \in 1..Len(kor_kerdesei) :
          /\ show_answer[kor_kerdesei[i]]
          /\ \E val \in {"helyes", "hibas"} \ {itel[kor_kerdesei[i]]} :
                itel' = radio_itel(show_answer,
                                   [itel EXCEPT ![kor_kerdesei[i]] = val])
    /\ UNCHANGED <<pc, qa_keys, kor_kerdesei, show_answer, osszegzes, splitVars,
                   bankVars, sampleVars, qnumVars>>

\* "Teszt kiértékelése": the rerun up to lines 256-263
teszt_kiertekelese ==
    /\ pc = "app"
    /\ kor_kerdesei # <<>>
    /\ itel' = radio_itel(show_answer, itel)
    /\ osszegzes' = [some |-> TRUE,
                     helyes_db |-> helyes_db(kor_kerdesei, itel'),
                     sikeres |-> helyes_db(kor_kerdesei, itel') >= KUSZOB]
    /\ UNCHANGED <<pc, qa_keys, kor_kerdesei, show_answer, splitVars, bankVars,
                   sampleVars, qnumVars>>

NextSession ==
    uj_kor \/ reset_minden \/ valasz_megjelenitese \/ onertekeles
    \/ teszt_kiertekelese

SpecSession == InitSession /\ [][NextSession]_vars

(***************************************************************************)
(* Claims about the quiz session                                           *)
(***************************************************************************)
\* C13: in every reachable state of the session, a summary that is present
\* holds the number of the round's questions whose verdict is helyes and the
\* pass flag helyes_db >= 7, so the exported record's achieved count agrees
\* with its own verdict list.
C13_SummaryMatchesVerdicts ==
    osszegzes.some =>
        /\ osszegzes.helyes_db = helyes_db(kor_kerdesei, itel)
        /\ osszegzes.sikeres = (osszegzes.helyes_db >= KUSZOB)
        /\ export.helyes_db
              = Cardinality({i \in DOMAIN export.reszletek :
                                export.reszletek[i] = "helyes"})

====
